---- MODULE Spec2Model ----
(***************************************************************************)
(* Model of mvm.cpp, the Makgeolli Volume Meter firmware (Arduino AVR):    *)
(* the five-screen button controller, the in-place editors of the tank     *)
(* settings, the EEPROM-backed settings store and the screen renderers.    *)
(*                                                                         *)
(* Target conventions (AVR): int is 16 bit, long 32 bit, float is IEEE-754 *)
(* binary32, memory and EEPROM are little-endian.  A float is modelled by  *)
(* its object representation, the tuple <<b0, b1, b2, b3>> of its four     *)
(* bytes, so that EEPROM.put / EEPROM.get are byte copies at computed      *)
(* addresses, as in the firmware.                                          *)
(***************************************************************************)
EXTENDS Integers, Sequences, FiniteSets, TLC

VARIABLES
    eeprom,          \* non-volatile bytes, address -> 0..255
    settings,        \* WaterTankSetting settings[5]
    currentSetting,  \* int currentSetting
    currentScreen,   \* int currentScreen
    menuItem,        \* int menuItem
    buttons,         \* the button levels read by the last handleButtons()
    display,         \* what the last updateDisplay() drew
    calls,           \* the settings-store routines the last step called, in order
    pc,              \* "setup" before setup() ran, "loop" afterwards, "store" in SpecStore
    cycles           \* number of loop() iterations executed

vars == <<eeprom, settings, currentSetting, currentScreen, menuItem,
          buttons, display, calls, pc, cycles>>

(***************************************************************************)
(* Bounds of the model.                                                    *)
(***************************************************************************)
\* loop() iterations explored after setup()
MaxCycles == 5
\* modelled prefix of the EEPROM (the firmware uses addresses 0..61)
EepromLen == 64

(***************************************************************************)
(* Program constants.                                                      *)
(***************************************************************************)
MAIN_SCREEN == 0
MENU_SCREEN == 1
VIEW_SCREEN == 2
SETTINGS_SCREEN == 3
LOAD_SCREEN == 4

NumSettings == 5
SizeofFloat == 4
SizeofInt == 2
SizeofSetting == 3 * SizeofFloat
currentSettingAddress == NumSettings * SizeofSetting
DisplayWidth == 128

(***************************************************************************)
(* IEEE-754 binary32 on its little-endian byte representation.             *)
(***************************************************************************)
RECURSIVE Pow2(_)
Pow2(n) == IF n = 0 THEN 1 ELSE 2 * Pow2(n - 1)

FSign(f) == f[4] \div 128
FExp(f) == (f[4] % 128) * 2 + (f[3] \div 128)
FMant(f) == (f[3] % 128) * 65536 + f[2] * 256 + f[1]

isnan(f) == FExp(f) = 255 /\ FMant(f) # 0
FIsZero(f) == FExp(f) = 0 /\ FMant(f) = 0
\* x < 0 in float comparison: false for NaN and for -0.0
FNeg(f) == ~isnan(f) /\ FSign(f) = 1 /\ ~FIsZero(f)

\* floor(log2(a)) for a >= 1
RECURSIVE Log2(_)
Log2(a) == IF a < 2 THEN 0 ELSE 1 + Log2(a \div 2)

\* the float whose value is the integer n, |n| < 2^24 (exactly representable)
FloatOfInt(n) ==
    IF n = 0 THEN <<0, 0, 0, 0>>
    ELSE LET s == IF n < 0 THEN 1 ELSE 0
             a == IF n < 0 THEN -n ELSE n
             e == Log2(a)
             m == a * Pow2(23 - e) - Pow2(23)
             x == e + 127
         IN  <<m % 256, (m \div 256) % 256,
               (x % 2) * 128 + (m \div 65536), s * 128 + (x \div 2)>>

\* the integer held by a float f of integral value and magnitude < 2^24;
\* also the result of the C conversion (int)f
IntOfFloat(f) ==
    IF FIsZero(f) THEN 0
    ELSE LET a == (Pow2(23) + FMant(f)) \div Pow2(150 - FExp(f))
         IN  IF FSign(f) = 1 THEN -a ELSE a

\* magnitude 2^73 or more, infinities included
FHuge(f) == ~isnan(f) /\ FExp(f) >= 200
FIsInf(f) == FExp(f) = 255 /\ FMant(f) = 0

\* f + n in float arithmetic for a small integer n (|n| < 64):
\* NaN stays NaN; from 2^73 upwards (infinities included) the spacing of
\* floats exceeds 2*|n| and the sum rounds back to f; integers add exactly.
FAddInt(f, n) ==
    IF isnan(f) THEN f
    ELSE IF FHuge(f) THEN f
    ELSE FloatOfInt(IntOfFloat(f) + n)

(***************************************************************************)
(* 16-bit int on its little-endian byte representation.                    *)
(***************************************************************************)
IntOfBytes(b) ==
    LET u == b[1] + 256 * b[2]
    IN  IF u >= 32768 THEN u - 65536 ELSE u

BytesOfInt(n) ==
    LET u == IF n < 0 THEN n + 65536 ELSE n
    IN  <<u % 256, u \div 256>>

\* C remainder: truncates towards zero, the sign follows the dividend
CMod(a, b) == IF a >= 0 THEN a % b ELSE -((-a) % b)

(***************************************************************************)
(* EEPROM access: EEPROM.put / EEPROM.get copy the object representation   *)
(* byte by byte.  Addresses outside the modelled prefix are not stored.    *)
(***************************************************************************)
EepromGet(ee, addr, n) ==
    [k \in 1..n |-> IF (addr + k - 1) \in DOMAIN ee THEN ee[addr + k - 1] ELSE 255]

EepromPut(ee, addr, bytes) ==
    [a \in DOMAIN ee |->
        IF a >= addr /\ a < addr + Len(bytes) THEN bytes[a - addr + 1] ELSE ee[a]]

\* object representation of a WaterTankSetting: its three floats in order
SettingBytes(s) == s.minHeight \o s.diameter \o s.targetCapacity

SettingOfBytes(b) ==
    [minHeight      |-> SubSeq(b, 1, 4),
     diameter       |-> SubSeq(b, 5, 8),
     targetCapacity |-> SubSeq(b, 9, 12)]

FZero == <<0, 0, 0, 0>>
DefaultSetting == [minHeight |-> FZero, diameter |-> FZero, targetCapacity |-> FZero]

(***************************************************************************)
(* The globals of the firmware as one record g, so that the statements of  *)
(* a handler compose in program order.                                     *)
(***************************************************************************)
Globals ==
    [eeprom |-> eeprom, settings |-> settings, currentSetting |-> currentSetting,
     currentScreen |-> currentScreen, menuItem |-> menuItem, calls |-> <<>>]

\* mutant: the slots are read at a stride of sizeof(float)
loadSettings_floatStride(g) ==
    [g EXCEPT !.settings =
                 [i \in 0..(NumSettings - 1) |->
                     SettingOfBytes(EepromGet(g.eeprom, i * SizeofFloat, SizeofSetting))],
              !.calls = Append(@, [op |-> "load", index |-> 0])]

loadSettings(g) ==
    [g EXCEPT !.settings =
                 [i \in 0..(NumSettings - 1) |->
                     SettingOfBytes(EepromGet(g.eeprom, i * SizeofSetting, SizeofSetting))],
              !.calls = Append(@, [op |-> "load", index |-> 0])]

\* mutant: the slot is written at a stride of sizeof(float)
saveSettings_floatStride(g, index) ==
    IF index >= 0 /\ index < 5
    THEN [g EXCEPT !.eeprom =
                      EepromPut(g.eeprom, index * SizeofFloat,
                                SettingBytes(g.settings[index])),
                   !.calls = Append(@, [op |-> "save", index |-> index])]
    ELSE [g EXCEPT !.calls = Append(@, [op |-> "save", index |-> index])]

\* mutant: the guard excludes the last slot
saveSettings_skipLast(g, index) ==
    IF index >= 0 /\ index < 4
    THEN [g EXCEPT !.eeprom =
                      EepromPut(g.eeprom, index * SizeofSetting,
                                SettingBytes(g.settings[index])),
                   !.calls = Append(@, [op |-> "save", index |-> index])]
    ELSE [g EXCEPT !.calls = Append(@, [op |-> "save", index |-> index])]

saveSettings(g, index) ==
    IF index >= 0 /\ index < 5
    THEN [g EXCEPT !.eeprom =
                      EepromPut(g.eeprom, index * SizeofSetting,
                                SettingBytes(g.settings[index])),
                   !.calls = Append(@, [op |-> "save", index |-> index])]
    ELSE [g EXCEPT !.calls = Append(@, [op |-> "save", index |-> index])]

\* mutant: the corrected index is not written back
setup_noPersist(g) ==
    LET stored == IntOfBytes(EepromGet(g.eeprom, currentSettingAddress, SizeofInt))
        g1 == IF stored < 0 \/ stored >= 5
              THEN [g EXCEPT !.currentSetting = 0]
              ELSE [g EXCEPT !.currentSetting = stored]
    IN  loadSettings(g1)

setup(g) ==
    LET stored == IntOfBytes(EepromGet(g.eeprom, currentSettingAddress, SizeofInt))
        g1 == IF stored < 0 \/ stored >= 5
              THEN [g EXCEPT !.currentSetting = 0,
                             !.eeprom = EepromPut(g.eeprom, currentSettingAddress, BytesOfInt(0))]
              ELSE [g EXCEPT !.currentSetting = stored]
    IN  loadSettings(g1)

\* distance in cm for an echo of `duration` microseconds: duration * 0.034 / 2
\* (pulseIn returns 0 on timeout; multiples of 1000 give an exact float)
pingSonar(duration) == FloatOfInt((duration * 34) \div 2000)

(***************************************************************************)
(* Button handling.                                                        *)
(***************************************************************************)
\* the Up / Down steps of the highlighted row
\* mutant: Up as a decrement
menuUp_decrement(m) == CMod(m - 1, 4)

menuUp(m) == CMod(m + 3, 4)
menuDown(m) == CMod(m + 1, 4)

\* mutant: the Load-screen step as a decrement
loadStep_decrement(m) == CMod(m - 1, 2)

loadStep(m) == CMod(m + 1, 2)

\* mutant: the View and Edit cases exchanged
executeMenuAction_swapped(g) ==
    LET g1 == CASE g.menuItem = 0 -> [g EXCEPT !.currentScreen = MAIN_SCREEN]
                [] g.menuItem = 1 -> [g EXCEPT !.currentScreen = SETTINGS_SCREEN]
                [] g.menuItem = 2 -> [g EXCEPT !.currentScreen = VIEW_SCREEN]
                [] g.menuItem = 3 -> [g EXCEPT !.currentScreen = LOAD_SCREEN]
                [] OTHER -> g
    IN  [g1 EXCEPT !.menuItem = -1]

\* mutant: menuItem is not reset after the dispatch
executeMenuAction_keepItem(g) ==
    CASE g.menuItem = 0 -> [g EXCEPT !.currentScreen = MAIN_SCREEN]
      [] g.menuItem = 1 -> [g EXCEPT !.currentScreen = VIEW_SCREEN]
      [] g.menuItem = 2 -> [g EXCEPT !.currentScreen = SETTINGS_SCREEN]
      [] g.menuItem = 3 -> [g EXCEPT !.currentScreen = LOAD_SCREEN]
      [] OTHER -> g

\* mutant: row 0 opens the View screen, no row opens the Main screen
executeMenuAction_noMain(g) ==
    LET g1 == CASE g.menuItem = 0 -> [g EXCEPT !.currentScreen = VIEW_SCREEN]
                [] g.menuItem = 1 -> [g EXCEPT !.currentScreen = VIEW_SCREEN]
                [] g.menuItem = 2 -> [g EXCEPT !.currentScreen = SETTINGS_SCREEN]
                [] g.menuItem = 3 -> [g EXCEPT !.currentScreen = LOAD_SCREEN]
                [] OTHER -> g
    IN  [g1 EXCEPT !.menuItem = -1]

executeMenuAction(g) ==
    LET g1 == CASE g.menuItem = 0 -> [g EXCEPT !.currentScreen = MAIN_SCREEN]
                [] g.menuItem = 1 -> [g EXCEPT !.currentScreen = VIEW_SCREEN]
                [] g.menuItem = 2 -> [g EXCEPT !.currentScreen = SETTINGS_SCREEN]
                [] g.menuItem = 3 -> [g EXCEPT !.currentScreen = LOAD_SCREEN]
                [] OTHER -> g
    IN  [g1 EXCEPT !.menuItem = -1]

\* mutant: no NaN reset before the addition
adjustField_noNanReset(f, adjustment) ==
    LET f1 == FAddInt(f, adjustment)
    IN  IF FNeg(f1) THEN FZero ELSE f1

\* the NaN reset, the += adjustment and the clamp at 0 of one float field
adjustField(f, adjustment) ==
    LET f0 == IF isnan(f) THEN FZero ELSE f
        f1 == FAddInt(f0, adjustment)
    IN  IF FNeg(f1) THEN FZero ELSE f1

\* mutant: row 1 adjusts the target capacity
adjustSetting_wrongField(g, increase, duration) ==
    LET adjustment == IF increase THEN 10 ELSE -10
        cs == g.currentSetting
    IN  CASE g.menuItem = 0 ->
               [g EXCEPT !.settings[cs].minHeight = pingSonar(duration)]
          [] g.menuItem = 1 ->
               [g EXCEPT !.settings[cs].targetCapacity = adjustField(@, adjustment)]
          [] g.menuItem = 2 ->
               [g EXCEPT !.settings[cs].targetCapacity = adjustField(@, adjustment)]
          [] OTHER -> g

adjustSetting(g, increase, duration) ==
    LET adjustment == IF increase THEN 10 ELSE -10
        cs == g.currentSetting
    IN  CASE g.menuItem = 0 ->
               [g EXCEPT !.settings[cs].minHeight = pingSonar(duration)]
          [] g.menuItem = 1 ->
               [g EXCEPT !.settings[cs].diameter = adjustField(@, adjustment)]
          [] g.menuItem = 2 ->
               [g EXCEPT !.settings[cs].targetCapacity = adjustField(@, adjustment)]
          [] OTHER -> g

\* mutant: no upper clamp
adjustCurrentSettingIndex_noUpperClamp(g, increase) ==
    LET adjustment == IF increase THEN 1 ELSE -1
        c1 == IntOfFloat(FAddInt(FloatOfInt(g.currentSetting), adjustment))
        c2 == IF c1 < 0 THEN 0 ELSE c1
    IN  CASE g.menuItem = 0 -> [g EXCEPT !.currentSetting = c2]
          [] OTHER -> g

\* mutant: the direction of the step is inverted
adjustCurrentSettingIndex_inverted(g, increase) ==
    LET adjustment == IF increase THEN -1 ELSE 1
        c1 == IntOfFloat(FAddInt(FloatOfInt(g.currentSetting), adjustment))
        c2 == IF c1 < 0 THEN 0 ELSE c1
        c3 == IF c2 >= 5 THEN 4 ELSE c2
    IN  CASE g.menuItem = 0 -> [g EXCEPT !.currentSetting = c3]
          [] OTHER -> g

\* currentSetting += adjustment goes through float: int -> float, add, float -> int
adjustCurrentSettingIndex(g, increase) ==
    LET adjustment == IF increase THEN 1 ELSE -1
        c1 == IntOfFloat(FAddInt(FloatOfInt(g.currentSetting), adjustment))
        c2 == IF c1 < 0 THEN 0 ELSE c1
        c3 == IF c2 >= 5 THEN 4 ELSE c2
    IN  CASE g.menuItem = 0 -> [g EXCEPT !.currentSetting = c3]
          [] OTHER -> g

\* mutant: on the Menu and Edit screens Select is tested before the arrows
handleButtons_selectFirst(g, b, duration) ==
    CASE g.currentScreen = MAIN_SCREEN ->
           IF b.select
           THEN [g EXCEPT !.currentScreen = MENU_SCREEN, !.menuItem = -1]
           ELSE g
      [] g.currentScreen = MENU_SCREEN ->
           LET g0 == IF b.select THEN executeMenuAction(g) ELSE g
               g1 == IF b.up THEN [g0 EXCEPT !.menuItem = menuUp(@)] ELSE g0
           IN  IF b.down THEN [g1 EXCEPT !.menuItem = menuDown(@)] ELSE g1
      [] g.currentScreen = VIEW_SCREEN ->
           IF b.select THEN [g EXCEPT !.currentScreen = MENU_SCREEN] ELSE g
      [] g.currentScreen = SETTINGS_SCREEN ->
           LET g0 == IF g.menuItem = 0
                     THEN IF b.select THEN adjustSetting(g, TRUE, duration) ELSE g
                     ELSE IF g.menuItem < 3
                     THEN IF b.left THEN adjustSetting(g, FALSE, duration)
                          ELSE IF b.right THEN adjustSetting(g, TRUE, duration)
                          ELSE g
                     ELSE IF b.select
                          THEN [saveSettings(g, g.currentSetting) EXCEPT
                                   !.currentScreen = MENU_SCREEN, !.menuItem = -1]
                          ELSE g
               g1 == IF b.up THEN [g0 EXCEPT !.menuItem = menuUp(@)] ELSE g0
           IN  IF b.down THEN [g1 EXCEPT !.menuItem = menuDown(@)] ELSE g1
      [] g.currentScreen = LOAD_SCREEN ->
           LET g1 == IF b.up THEN [g EXCEPT !.menuItem = loadStep(@)] ELSE g
               g2 == IF b.down THEN [g1 EXCEPT !.menuItem = loadStep(@)] ELSE g1
           IN  IF g2.menuItem = 0
               THEN IF b.left THEN adjustCurrentSettingIndex(g2, FALSE)
                    ELSE IF b.right THEN adjustCurrentSettingIndex(g2, TRUE)
                    ELSE g2
               ELSE IF b.select
                    THEN [loadSettings([g2 EXCEPT !.eeprom =
                              EepromPut(@, currentSettingAddress, BytesOfInt(g2.currentSetting))])
                          EXCEPT !.currentScreen = MENU_SCREEN, !.menuItem = -1]
                    ELSE g2
      [] OTHER -> g

\* mutant: leaving the Load screen does not write the index record
handleButtons_noIndexPut(g, b, duration) ==
    CASE g.currentScreen = MAIN_SCREEN ->
           IF b.select
           THEN [g EXCEPT !.currentScreen = MENU_SCREEN, !.menuItem = -1]
           ELSE g
      [] g.currentScreen = MENU_SCREEN ->
           LET g1 == IF b.up THEN [g EXCEPT !.menuItem = menuUp(@)] ELSE g
               g2 == IF b.down THEN [g1 EXCEPT !.menuItem = menuDown(@)] ELSE g1
           IN  IF b.select THEN executeMenuAction(g2) ELSE g2
      [] g.currentScreen = VIEW_SCREEN ->
           IF b.select THEN [g EXCEPT !.currentScreen = MENU_SCREEN] ELSE g
      [] g.currentScreen = SETTINGS_SCREEN ->
           LET g1 == IF b.up THEN [g EXCEPT !.menuItem = menuUp(@)] ELSE g
               g2 == IF b.down THEN [g1 EXCEPT !.menuItem = menuDown(@)] ELSE g1
           IN  IF g2.menuItem = 0
               THEN IF b.select THEN adjustSetting(g2, TRUE, duration) ELSE g2
               ELSE IF g2.menuItem < 3
               THEN IF b.left THEN adjustSetting(g2, FALSE, duration)
                    ELSE IF b.right THEN adjustSetting(g2, TRUE, duration)
                    ELSE g2
               ELSE IF b.select
                    THEN [saveSettings(g2, g2.currentSetting) EXCEPT
                             !.currentScreen = MENU_SCREEN, !.menuItem = -1]
                    ELSE g2
      [] g.currentScreen = LOAD_SCREEN ->
           LET g1 == IF b.up THEN [g EXCEPT !.menuItem = loadStep(@)] ELSE g
               g2 == IF b.down THEN [g1 EXCEPT !.menuItem = loadStep(@)] ELSE g1
           IN  IF g2.menuItem = 0
               THEN IF b.left THEN adjustCurrentSettingIndex(g2, FALSE)
                    ELSE IF b.right THEN adjustCurrentSettingIndex(g2, TRUE)
                    ELSE g2
               ELSE IF b.select
                    THEN [loadSettings(g2)
                          EXCEPT !.currentScreen = MENU_SCREEN, !.menuItem = -1]
                    ELSE g2
      [] OTHER -> g

handleButtons(g, b, duration) ==
    CASE g.currentScreen = MAIN_SCREEN ->
           IF b.select
           THEN [g EXCEPT !.currentScreen = MENU_SCREEN, !.menuItem = -1]
           ELSE g
      [] g.currentScreen = MENU_SCREEN ->
           LET g1 == IF b.up THEN [g EXCEPT !.menuItem = menuUp(@)] ELSE g
               g2 == IF b.down THEN [g1 EXCEPT !.menuItem = menuDown(@)] ELSE g1
           IN  IF b.select THEN executeMenuAction(g2) ELSE g2
      [] g.currentScreen = VIEW_SCREEN ->
           IF b.select THEN [g EXCEPT !.currentScreen = MENU_SCREEN] ELSE g
      [] g.currentScreen = SETTINGS_SCREEN ->
           LET g1 == IF b.up THEN [g EXCEPT !.menuItem = menuUp(@)] ELSE g
               g2 == IF b.down THEN [g1 EXCEPT !.menuItem = menuDown(@)] ELSE g1
           IN  IF g2.menuItem = 0
               THEN IF b.select THEN adjustSetting(g2, TRUE, duration) ELSE g2
               ELSE IF g2.menuItem < 3
               THEN IF b.left THEN adjustSetting(g2, FALSE, duration)
                    ELSE IF b.right THEN adjustSetting(g2, TRUE, duration)
                    ELSE g2
               ELSE IF b.select
                    THEN [saveSettings(g2, g2.currentSetting) EXCEPT
                             !.currentScreen = MENU_SCREEN, !.menuItem = -1]
                    ELSE g2
      [] g.currentScreen = LOAD_SCREEN ->
           LET g1 == IF b.up THEN [g EXCEPT !.menuItem = loadStep(@)] ELSE g
               g2 == IF b.down THEN [g1 EXCEPT !.menuItem = loadStep(@)] ELSE g1
           IN  IF g2.menuItem = 0
               THEN IF b.left THEN adjustCurrentSettingIndex(g2, FALSE)
                    ELSE IF b.right THEN adjustCurrentSettingIndex(g2, TRUE)
                    ELSE g2
               ELSE IF b.select
                    THEN [loadSettings([g2 EXCEPT !.eeprom =
                              EepromPut(@, currentSettingAddress, BytesOfInt(g2.currentSetting))])
                          EXCEPT !.currentScreen = MENU_SCREEN, !.menuItem = -1]
                    ELSE g2
      [] OTHER -> g

(***************************************************************************)
(* Rendering.  The model keeps of a frame what the checked properties are  *)
(* about: which screen was drawn, which parts of it, the width of the      *)
(* progress-bar fill and the label indices the list loops read.            *)
(***************************************************************************)
\* width values standing for the result of an undefined long computation
UndefinedWidths == {-1, 0, 300}

Frame(screen, drawn, labels) ==
    [screen |-> screen, drawn |-> drawn, labels |-> labels,
     volume |-> [kind |-> "none", k |-> 0], progress |-> 0,
     divByZero |-> FALSE, badCast |-> FALSE]

Blank == Frame(-1, {}, {})

\* C division of longs: truncates towards zero
CDiv(a, b) ==
    LET q == (IF a < 0 THEN -a ELSE a) \div (IF b < 0 THEN -b ELSE b)
    IN  IF (a < 0) = (b < 0) THEN q ELSE -q

\* (PI * diameter * height) / 1000.0f, as one of
\*   kind "nan";  kind "huge": magnitude beyond the range of long, sign in k;
\*   kind "num": the value PI * k / 1000 for the integer k = diameter * height
Volume(diameter, height) ==
    IF isnan(diameter) \/ isnan(height) THEN [kind |-> "nan", k |-> 0]
    ELSE IF FHuge(diameter) \/ FHuge(height)
    THEN IF FIsZero(diameter) \/ FIsZero(height)
         THEN IF FIsInf(diameter) \/ FIsInf(height)
              THEN [kind |-> "nan", k |-> 0]
              ELSE [kind |-> "num", k |-> 0]
         ELSE [kind |-> "huge", k |-> IF FSign(diameter) = FSign(height) THEN 1 ELSE -1]
    ELSE [kind |-> "num", k |-> IntOfFloat(diameter) * IntOfFloat(height)]

\* (long)volume for a volume of kind "num" that is >= 0: trunc(PI * k / 1000)
LongOfVolume(v) == (v.k * 31416) \div 10000000

\* Arduino map(x, 0, in_max, 0, out_max) on longs, in_max # 0
map(x, in_max, out_max) == CDiv(x * out_max, in_max)

\* mutant: no isnan(volume) test, the numeric branch is always taken
updateMainScreen_noNanCheck(g, duration) ==
    LET s == g.settings[g.currentSetting]
        distance == pingSonar(duration)
        height == FAddInt(s.minHeight, -IntOfFloat(distance))
        volume == Volume(s.diameter, height)
        base == Frame(MAIN_SCREEN, {"volume", "bar"}, {})
    IN  {[base EXCEPT !.volume = volume, !.progress = w, !.badCast = TRUE]
            : w \in UndefinedWidths}

\* the frames updateMainScreen can draw (several where the C is undefined)
updateMainScreen(g, duration) ==
    LET s == g.settings[g.currentSetting]
        distance == pingSonar(duration)
        height == FAddInt(s.minHeight, -IntOfFloat(distance))
        volume == Volume(s.diameter, height)
        shown == IF volume.kind # "nan" /\ volume.k < 0
                 THEN [kind |-> "num", k |-> 0] ELSE volume
        progressBarWidth == DisplayWidth - 4
        tc == s.targetCapacity
        badCast == shown.kind = "huge" \/ isnan(tc) \/ FHuge(tc)
        divByZero == ~isnan(tc) /\ ~FHuge(tc) /\ IntOfFloat(tc) = 0
        base == Frame(MAIN_SCREEN, {"volume", "bar"}, {})
    IN  IF volume.kind = "nan"
        THEN {[Frame(MAIN_SCREEN, {"prompt"}, {}) EXCEPT !.volume = volume]}
        ELSE IF badCast \/ divByZero
        THEN {[base EXCEPT !.volume = shown, !.progress = w,
                           !.divByZero = divByZero, !.badCast = badCast]
                 : w \in UndefinedWidths}
        ELSE {[base EXCEPT !.volume = shown,
                           !.progress = map(LongOfVolume(shown), IntOfFloat(tc),
                                            progressBarWidth)]}

\* the list loops: every i below the loop bound reads menuItems[i]
updateMenuScreen(g) == Frame(MENU_SCREEN, {"list"}, 0..4)
updateViewSettingsScreen(g) == Frame(VIEW_SCREEN, {"values"}, {})
updateEditSettingsScreen(g) == Frame(SETTINGS_SCREEN, {"list"}, 0..3)
updateLoadSettingsScreen(g) == Frame(LOAD_SCREEN, {"list"}, 0..1)

updateDisplay(g, duration) ==
    CASE g.currentScreen = MAIN_SCREEN -> updateMainScreen(g, duration)
      [] g.currentScreen = MENU_SCREEN -> {updateMenuScreen(g)}
      [] g.currentScreen = VIEW_SCREEN -> {updateViewSettingsScreen(g)}
      [] g.currentScreen = SETTINGS_SCREEN -> {updateEditSettingsScreen(g)}
      [] g.currentScreen = LOAD_SCREEN -> {updateLoadSettingsScreen(g)}
      [] OTHER -> {Blank}

(***************************************************************************)
(* Inputs and initial EEPROM contents.                                     *)
(***************************************************************************)
Buttons == [up : BOOLEAN, down : BOOLEAN, left : BOOLEAN, right : BOOLEAN,
            select : BOOLEAN]
NoButtons == [up |-> FALSE, down |-> FALSE, left |-> FALSE, right |-> FALSE,
              select |-> FALSE]

\* echo durations in microseconds (0: pulseIn timed out)
Durations == {0, 2000}

FErased == <<255, 255, 255, 255>>   \* erased EEPROM cells read as a NaN
FMinusInf == <<0, 0, 128, 255>>
F1e30 == <<202, 242, 73, 113>>

Erased == [minHeight |-> FErased, diameter |-> FErased, targetCapacity |-> FErased]
Tank == [minHeight |-> FloatOfInt(34), diameter |-> FloatOfInt(20),
         targetCapacity |-> FloatOfInt(10)]
\* a setting whose volume exceeds its target capacity when the tank is full
Over == [minHeight |-> FloatOfInt(34), diameter |-> FloatOfInt(200),
         targetCapacity |-> FloatOfInt(10)]
Odd == [minHeight |-> F1e30, diameter |-> FloatOfInt(-10), targetCapacity |-> FMinusInf]

SampleSettings == {Erased, DefaultSetting, Tank, Odd}

\* settings arrays with one slot holding p and the other four q
SampleArrays ==
    {[i \in 0..(NumSettings - 1) |-> IF i = k THEN p ELSE q] :
        k \in {1}, p \in {Erased, Over}, q \in SampleSettings}

\* stored values of the active-index record
SampleIndexes == {-1, 1, 4, 5}

EepromImage(arr, idx) ==
    [a \in 0..(EepromLen - 1) |->
        IF a < currentSettingAddress
        THEN SettingBytes(arr[a \div SizeofSetting])[(a % SizeofSetting) + 1]
        ELSE IF a < currentSettingAddress + SizeofInt
        THEN BytesOfInt(idx)[a - currentSettingAddress + 1]
        ELSE 255]

SampleEeproms == {EepromImage(arr, idx) : arr \in SampleArrays, idx \in SampleIndexes}

(***************************************************************************)
(* The firmware: static initialisation, setup(), then loop() forever.      *)
(***************************************************************************)
Init ==
    /\ eeprom \in SampleEeproms
    /\ settings = [i \in 0..(NumSettings - 1) |-> DefaultSetting]
    /\ currentSetting = 0
    /\ currentScreen = MAIN_SCREEN
    /\ menuItem = 0
    /\ buttons = NoButtons
    /\ display = Blank
    /\ calls = <<>>
    /\ pc = "setup"
    /\ cycles = 0

Becomes(g) ==
    /\ eeprom' = g.eeprom
    /\ settings' = g.settings
    /\ currentSetting' = g.currentSetting
    /\ currentScreen' = g.currentScreen
    /\ menuItem' = g.menuItem
    /\ calls' = g.calls

Setup ==
    /\ pc = "setup"
    /\ Becomes(setup(Globals))
    /\ pc' = "loop"
    /\ UNCHANGED <<buttons, display, cycles>>

\* one iteration of loop(): handleButtons(); updateDisplay(); pingSonar(); delay(100).
\* handleButtons reads the sonar only when it stays on the Edit screen and
\* updateDisplay only when it draws the Main screen, so an iteration uses at
\* most one sonar reading, d; the reading loop() takes itself is discarded.
Loop ==
    /\ pc = "loop"
    /\ cycles < MaxCycles
    /\ \E b \in Buttons, d \in Durations :
          LET g == handleButtons(Globals, b, d)
          IN  /\ Becomes(g)
              /\ buttons' = b
              /\ display' \in updateDisplay(g, d)
    /\ cycles' = cycles + 1
    /\ UNCHANGED pc

Next == Setup \/ Loop

Spec == Init /\ [][Next]_vars

(***************************************************************************)
(* The firmware with a user who, from some cycle on, heads for the Main    *)
(* screen: the buttons read by handleButtons are then a function of what   *)
(* the display shows (screen and highlighted row).                         *)
(***************************************************************************)
Press(keys) == [k \in {"up", "down", "left", "right", "select"} |-> k \in keys]

\* the buttons held during a cycle that starts on `screen` with row `m`
HomeButtons(screen, m) ==
    CASE screen = VIEW_SCREEN -> Press({"select"})
      [] screen = MENU_SCREEN ->
           (CASE m = 0 -> Press({"select"})
              [] m = 1 -> Press({"up", "select"})
              [] m = 2 -> Press({"down"})
              [] OTHER -> Press({"down", "select"}))
      [] screen = SETTINGS_SCREEN ->
           (CASE m = 0 -> Press({"up", "select"})
              [] m = 1 -> Press({"down"})
              [] m = 2 -> Press({"down", "select"})
              [] m = 3 -> Press({"select"})
              [] OTHER -> Press({"up", "down", "select"}))
      [] screen = LOAD_SCREEN ->
           (CASE m = 0 -> Press({"up", "select"})
              [] OTHER -> Press({"select"}))
      [] OTHER -> NoButtons

\* the user has somewhere to go: the firmware is past setup and shows a
\* screen other than Main
HomeEnabled == pc \in {"loop", "home"} /\ currentScreen # MAIN_SCREEN

\* one iteration of loop() with the buttons of HomeButtons; the sonar
\* reading stays an input
Home ==
    /\ HomeEnabled
    /\ \E d \in Durations :
          LET b == HomeButtons(currentScreen, menuItem)
              g == handleButtons(Globals, b, d)
          IN  /\ Becomes(g)
              /\ buttons' = b
              /\ display' \in updateDisplay(g, d)
    /\ pc' = "home"
    /\ UNCHANGED cycles

NextHome == Setup \/ Loop \/ Home

\* loop() is called again and again, so a cycle that can run does run: weak
\* fairness of Home.  It is written out, <>[]enabled => []<>step, with
\* HomeEnabled for ENABLED <<Home>>_vars: handleButtons and updateDisplay are
\* total and a Home step always changes pc, the screen or the row.
SpecHome ==
    Init /\ [][NextHome]_vars /\ ([]<><<Home>>_vars \/ []<>~HomeEnabled)

(***************************************************************************)
(* The settings store on its own: saveSettings and loadSettings applied to *)
(* arbitrary memory and EEPROM contents and to arbitrary index arguments.  *)
(***************************************************************************)
SaveArgs == -2..6

InitStore ==
    /\ eeprom \in {EepromImage(arr, 4) : arr \in SampleArrays}
    /\ settings \in SampleArrays
    /\ currentSetting = 0
    /\ currentScreen = MAIN_SCREEN
    /\ menuItem = 0
    /\ buttons = NoButtons
    /\ display = Blank
    /\ calls = <<>>
    /\ pc = "store"
    /\ cycles = 0

StoreSave ==
    /\ pc = "store"
    /\ \E index \in SaveArgs : Becomes(saveSettings(Globals, index))
    /\ UNCHANGED <<buttons, display, pc, cycles>>

StoreLoad ==
    /\ pc = "store"
    /\ Becomes(loadSettings(Globals))
    /\ UNCHANGED <<buttons, display, pc, cycles>>

\* save(index) directly followed by loadSettings()
StoreSaveLoad ==
    /\ pc = "store"
    /\ \E index \in SaveArgs : Becomes(loadSettings(saveSettings(Globals, index)))
    /\ UNCHANGED <<buttons, display, pc, cycles>>

NextStore == StoreSave \/ StoreLoad \/ StoreSaveLoad

SpecStore == InitStore /\ [][NextStore]_vars

(***************************************************************************)
(* Properties.                                                             *)
(***************************************************************************)
\* the stored settings record of slot i and the stored active-index record,
\* read straight from the EEPROM layout
StoredSetting(ee, i) ==
    [minHeight      |-> <<ee[12 * i], ee[12 * i + 1], ee[12 * i + 2], ee[12 * i + 3]>>,
     diameter       |-> <<ee[12 * i + 4], ee[12 * i + 5], ee[12 * i + 6], ee[12 * i + 7]>>,
     targetCapacity |-> <<ee[12 * i + 8], ee[12 * i + 9], ee[12 * i + 10], ee[12 * i + 11]>>]

StoredIndex(ee) ==
    IF ee[61] >= 128 THEN ee[60] + 256 * ee[61] - 65536 ELSE ee[60] + 256 * ee[61]

Slots == 0..4

\* f >= 0 holds in float comparison (false for NaN)
FNonNegative(f) ==
    /\ ~(f[4] % 128 = 127 /\ f[3] >= 128 /\ (f[3] % 128) + f[2] + f[1] > 0)
    /\ (f[4] < 128 \/ (f[4] = 128 /\ f[3] = 0 /\ f[2] = 0 /\ f[1] = 0))

\* the row the arrows of a cycle lead to from row m on a list of n rows, as
\* the table of section 4.2 reads: Up is a step of n - 1, Down a step of 1
RowAfter(m, b, n) ==
    (m + (IF b.up THEN n - 1 ELSE 0) + (IF b.down THEN 1 ELSE 0)) % n

\* C1: after setup, through any sequence of cycles, the in-memory active
\* index is in [0,5), whatever the stored index record was before boot.
Inv_C1_IndexInRange == pc = "loop" => currentSetting \in 0..4

\* C1 witness: Right was pressed on row 0 of the Load screen at index 4.
W_C1 ==
    /\ pc = "loop" /\ currentScreen = LOAD_SCREEN /\ menuItem = 0
    /\ buttons.right /\ ~buttons.left /\ currentSetting = 4

\* C2: after an Edit-screen Left/Right adjustment of the diameter (row 1) or
\* the target capacity (row 2) the adjusted field of the active setting is a
\* number >= 0, not NaN.  (Row 1 or 2 is highlighted on the Edit screen only
\* after a cycle handled there, and Left/Right on that row ran the adjustment.)
Inv_C2_AdjustedNonNegative ==
    (pc = "loop" /\ currentScreen = SETTINGS_SCREEN /\ (buttons.left \/ buttons.right))
        => /\ menuItem = 1 => FNonNegative(settings[currentSetting].diameter)
           /\ menuItem = 2 => FNonNegative(settings[currentSetting].targetCapacity)

\* C2 witness: Left on the diameter row of a setting whose stored diameter
\* is NaN; the field became 0.
W_C2 ==
    /\ pc = "loop" /\ currentScreen = SETTINGS_SCREEN /\ menuItem = 1
    /\ buttons.left
    /\ StoredSetting(eeprom, currentSetting).diameter = FErased
    /\ settings[currentSetting].diameter = FZero

\* C3: saveSettings(i) directly followed by loadSettings() leaves slot i in
\* memory with exactly the three field values it had when it was saved.
Thm_C3_RoundTrip ==
    [][(Len(calls') = 2 /\ calls'[1].op = "save" /\ calls'[2].op = "load"
            /\ calls'[1].index \in Slots)
        => settings'[calls'[1].index] = settings[calls'[1].index]]_vars

\* C3 witness: slot 2 was saved and everything reloaded; slot 2 holds the
\* saved setting while its neighbour came back from storage with another one.
W_C3 ==
    /\ pc = "store" /\ Len(calls) = 2
    /\ calls[1] = [op |-> "save", index |-> 2] /\ calls[2].op = "load"
    /\ settings[2] = Tank /\ settings[3] = Odd

\* C4: an Up or Down step on the Menu and Edit screens (4 rows) and on the
\* Load screen (2 rows) leaves menuItem in [0, rows), from every value it can
\* hold, the sentinel -1 included.  (A cycle that stays on its list screen
\* shows the row the step produced.)
Thm_C4_StepInRange ==
    [][(pc = "loop" /\ (buttons'.up \/ buttons'.down) /\ currentScreen' = currentScreen)
        => /\ currentScreen \in {MENU_SCREEN, SETTINGS_SCREEN} => menuItem' \in 0..3
           /\ currentScreen = LOAD_SCREEN => menuItem' \in 0..1]_vars

\* C4 witness: Up alone on the Menu screen just entered (menuItem -1) gave row 2.
W_C4 ==
    /\ pc = "loop" /\ cycles = 2 /\ currentScreen = MENU_SCREEN
    /\ buttons.up /\ ~buttons.down /\ menuItem = 2

\* C5: Select on the Menu screen moves to Main, View, Edit, Load for row
\* 0, 1, 2, 3 and stays on Menu for any other value (the sentinel -1); in
\* every case menuItem is -1 afterwards and the settings, the active index
\* and the EEPROM are unchanged.  The row is the one highlighted when the
\* action runs, that is after the arrows of the same cycle.
Thm_C5_MenuDispatch ==
    [][(pc = "loop" /\ currentScreen = MENU_SCREEN /\ buttons'.select)
        => LET row == IF buttons'.up \/ buttons'.down
                      THEN RowAfter(menuItem, buttons', 4) ELSE menuItem
           IN  /\ row = 0 => currentScreen' = MAIN_SCREEN
               /\ row = 1 => currentScreen' = VIEW_SCREEN
               /\ row = 2 => currentScreen' = SETTINGS_SCREEN
               /\ row = 3 => currentScreen' = LOAD_SCREEN
               /\ row \notin 0..3 => currentScreen' = MENU_SCREEN
               /\ menuItem' = -1
               /\ settings' = settings
               /\ currentSetting' = currentSetting
               /\ eeprom' = eeprom]_vars

\* C5 witness: Select with Down moved from Menu to the View screen.
W_C5 ==
    /\ pc = "loop" /\ cycles = 3 /\ currentScreen = VIEW_SCREEN /\ menuItem = -1
    /\ buttons.select /\ buttons.down /\ ~buttons.up

\* C6 (as claimed): on the Load screen Select persists the index, reloads the
\* settings and returns to Menu only on row 1; on any other row (0, or the
\* sentinel -1 right after entering) it leaves the screen, the stored index
\* and the settings in memory unchanged.
Cex_C6_SelectOnlyOnRow1 ==
    [][(pc = "loop" /\ currentScreen = LOAD_SCREEN /\ buttons'.select)
        => LET row == IF buttons'.up \/ buttons'.down
                      THEN RowAfter(menuItem, buttons', 2) ELSE menuItem
           IN  IF row = 1
               THEN /\ currentScreen' = MENU_SCREEN
                    /\ StoredIndex(eeprom') = currentSetting
                    /\ \A i \in Slots : settings'[i] = StoredSetting(eeprom, i)
               ELSE /\ currentScreen' = LOAD_SCREEN
                    /\ StoredIndex(eeprom') = StoredIndex(eeprom)
                    /\ settings' = settings]_vars

\* C7: a cycle that changes the screen from Main, View, Edit or Load to Menu
\* ends with menuItem = -1.
Thm_C7_SentinelOnMenuEntry ==
    [][(pc = "loop" /\ currentScreen # MENU_SCREEN /\ currentScreen' = MENU_SCREEN)
        => menuItem' = -1]_vars

\* C7 witness: the Edit screen was left through Save (the only step that
\* calls saveSettings), and Menu shows no highlighted row.
W_C7 ==
    /\ pc = "loop" /\ currentScreen = MENU_SCREEN /\ menuItem = -1
    /\ Len(calls) = 1 /\ calls[1].op = "save"

\* C8: setup heals a stored active index outside [0,5): the index in memory
\* and the stored record both become 0; a stored index inside [0,5) is taken
\* over and its record left as it is; the five stored settings records are
\* not written.
Thm_C8_BootSelfHealing ==
    [][pc = "setup"
        => /\ StoredIndex(eeprom) \notin 0..4
                => currentSetting' = 0 /\ StoredIndex(eeprom') = 0
           /\ StoredIndex(eeprom) \in 0..4
                => /\ currentSetting' = StoredIndex(eeprom)
                   /\ eeprom'[60] = eeprom[60] /\ eeprom'[61] = eeprom[61]
           /\ \A a \in 0..59 : eeprom'[a] = eeprom[a]]_vars

\* C8 witness: setup has run and index and record are 0 (no initial EEPROM
\* image stores 0, so the record was rewritten).
W_C8 ==
    /\ pc = "loop" /\ cycles = 0 /\ currentSetting = 0
    /\ eeprom[60] = 0 /\ eeprom[61] = 0

\* C9: saveSettings(index) with index outside [0,5) changes nothing in the
\* EEPROM or in memory; with index in [0,5) it overwrites exactly the stored
\* record of that slot with the setting in memory and leaves the other four
\* records, the stored index record and memory unchanged.
Thm_C9_SaveFrame ==
    [][(pc = "store" /\ Len(calls') = 1 /\ calls'[1].op = "save")
        => LET index == calls'[1].index
           IN  /\ settings' = settings
               /\ currentSetting' = currentSetting
               /\ currentScreen' = currentScreen
               /\ menuItem' = menuItem
               /\ index \notin Slots => eeprom' = eeprom
               /\ index \in Slots =>
                     /\ StoredSetting(eeprom', index) = settings[index]
                     /\ \A a \in DOMAIN eeprom :
                           (a < 12 * index \/ a >= 12 * index + 12)
                               => eeprom'[a] = eeprom[a]]_vars

\* C9 witness: slot 4 alone was saved; its record holds the setting from
\* memory, the record before it and the index record still hold other data.
W_C9 ==
    /\ pc = "store" /\ calls = <<[op |-> "save", index |-> 4]>>
    /\ settings[4] = Tank /\ StoredSetting(eeprom, 4) = Tank
    /\ StoredSetting(eeprom, 3) = Erased /\ StoredIndex(eeprom) = 4

\* C10 (as claimed): a Main-screen frame drawn for an active setting with
\* targetCapacity 0 and a volume that is not NaN has a progress-bar fill of
\* width 0, computed without a division by zero.
Cex_C10_ZeroCapacityZeroFill ==
    (pc = "loop" /\ display.screen = MAIN_SCREEN /\ "bar" \in display.drawn
        /\ settings[currentSetting].targetCapacity = FZero)
        => display.progress = 0 /\ ~display.divByZero

\* C11: a Main-screen frame whose computed volume is NaN (the diameter or the
\* minimum height of the active setting is NaN) shows the "please set up tank"
\* prompt and neither the numeric volume nor the progress bar; a frame whose
\* volume is not NaN (both are finite numbers) shows the volume and the bar
\* and no prompt.
Inv_C11_NanPrompt ==
    (pc = "loop" /\ display.screen = MAIN_SCREEN)
        => LET s == settings[currentSetting]
               nanIn == \/ (s.diameter[4] % 128 = 127 /\ s.diameter[3] >= 128
                               /\ (s.diameter[3] % 128) + s.diameter[2] + s.diameter[1] > 0)
                        \/ (s.minHeight[4] % 128 = 127 /\ s.minHeight[3] >= 128
                               /\ (s.minHeight[3] % 128) + s.minHeight[2] + s.minHeight[1] > 0)
               infIn == \/ (s.diameter[4] % 128 = 127 /\ s.diameter[3] = 128
                               /\ s.diameter[2] = 0 /\ s.diameter[1] = 0)
                        \/ (s.minHeight[4] % 128 = 127 /\ s.minHeight[3] = 128
                               /\ s.minHeight[2] = 0 /\ s.minHeight[1] = 0)
           IN  /\ nanIn => display.volume.kind = "nan"
               /\ (~nanIn /\ ~infIn) => display.volume.kind # "nan"
               /\ display.volume.kind = "nan" => display.drawn = {"prompt"}
               /\ display.volume.kind # "nan" => display.drawn = {"volume", "bar"}

\* C11 witness: the Main screen was drawn for an erased (all NaN) setting.
W_C11 ==
    /\ pc = "loop" /\ cycles >= 1 /\ display.screen = MAIN_SCREEN
    /\ settings[currentSetting].diameter = FErased
    /\ display.drawn = {"prompt"}

\* C12: on the Load screen a cycle with only Up and a cycle with only Down
\* give the same menuItem, one step forward modulo 2 (-1 to 0, 0 to 1, 1 to
\* 0); once 0 or 1, menuItem stays 0 or 1 until the screen is left.
Thm_C12_LoadStepForward ==
    [][(pc = "loop" /\ currentScreen = LOAD_SCREEN /\ currentScreen' = LOAD_SCREEN)
        => /\ (buttons'.up # buttons'.down)
                => menuItem' = (CASE menuItem = -1 -> 0
                                  [] menuItem = 0 -> 1
                                  [] menuItem = 1 -> 0
                                  [] OTHER -> -2)
           /\ (menuItem \in {0, 1} \/ buttons'.up \/ buttons'.down)
                => menuItem' \in {0, 1}]_vars

\* C12 witness: Down alone on the Load screen moved the highlight from row 0
\* to row 1.
W_C12 ==
    /\ pc = "loop" /\ currentScreen = LOAD_SCREEN /\ menuItem = 1
    /\ buttons.down /\ ~buttons.up /\ ~buttons.select

\* the screen the Menu dispatches to for a row, Menu itself for no row
ScreenOfRow(row) ==
    CASE row = 0 -> MAIN_SCREEN
      [] row = 1 -> VIEW_SCREEN
      [] row = 2 -> SETTINGS_SCREEN
      [] row = 3 -> LOAD_SCREEN
      [] OTHER -> MENU_SCREEN

\* what Select does on the Menu and Edit screens when it acts on `row`
SelectActsOn(row) ==
    /\ currentScreen = MENU_SCREEN => currentScreen' = ScreenOfRow(row)
    /\ currentScreen = SETTINGS_SCREEN =>
          /\ row = 3 => /\ currentScreen' = MENU_SCREEN
                         /\ calls' = <<[op |-> "save", index |-> currentSetting]>>
          /\ row = 0 => /\ currentScreen' = SETTINGS_SCREEN
                         /\ calls' = <<>>
                         /\ settings'[currentSetting].minHeight
                               \in {FloatOfInt(0), FloatOfInt(34)}
          /\ row \notin {0, 3} => /\ currentScreen' = SETTINGS_SCREEN
                                    /\ calls' = <<>>
                                    /\ settings'[currentSetting].minHeight
                                          = settings[currentSetting].minHeight

\* C13 (as claimed): with Select and Up or Down pressed in the same cycle on
\* the Menu or Edit screen, the Select action is decided by the menuItem held
\* at the start of the cycle.
Cex_C13_SelectBeforeArrows ==
    [][(pc = "loop" /\ currentScreen \in {MENU_SCREEN, SETTINGS_SCREEN}
            /\ buttons'.select /\ (buttons'.up \/ buttons'.down))
        => SelectActsOn(menuItem)]_vars

\* C13 (amended): with Select and Up or Down pressed in the same cycle on the
\* Menu or Edit screen, the arrows are applied first and the Select action is
\* decided by the row they lead to.
Thm_C13_ArrowsBeforeSelect ==
    [][(pc = "loop" /\ currentScreen \in {MENU_SCREEN, SETTINGS_SCREEN}
            /\ buttons'.select /\ (buttons'.up \/ buttons'.down))
        => SelectActsOn(RowAfter(menuItem, buttons', 4))]_vars

\* C13 witness: Up with Select on the Menu just entered (menuItem -1) opened
\* the Edit screen, the target of row 2.
W_C13 ==
    /\ pc = "loop" /\ cycles = 2 /\ currentScreen = SETTINGS_SCREEN
    /\ buttons.select /\ buttons.up /\ ~buttons.down /\ menuItem = -1

\* C14: on the Load screen with row 0 highlighted when Left/Right are
\* examined (that is, after the arrows of the cycle), Right sets the
\* in-memory active index to min(index + 1, 4) and Left (which is tested
\* first) to max(index - 1, 0); on any other row Left/Right leave the index
\* unchanged; Left/Right never change the stored index record, the settings
\* or the screen (on a row other than 0 only Select does).
Thm_C14_LoadLeftRight ==
    [][(pc = "loop" /\ currentScreen = LOAD_SCREEN
            /\ (buttons'.left \/ buttons'.right))
        => /\ currentSetting' =
                 (IF RowAfter(menuItem, buttons', 2) # 0 THEN currentSetting
                  ELSE IF buttons'.left
                  THEN (IF currentSetting - 1 < 0 THEN 0 ELSE currentSetting - 1)
                  ELSE (IF currentSetting + 1 > 4 THEN 4 ELSE currentSetting + 1))
           /\ (RowAfter(menuItem, buttons', 2) = 0 \/ ~buttons'.select)
                 => /\ eeprom' = eeprom
                    /\ settings' = settings
                    /\ currentScreen' = LOAD_SCREEN
                    /\ calls' = <<>>]_vars

\* C14 witness: Left on row 0 of the Load screen took the index from the
\* stored 4 down to 3, the stored record still being 4.
W_C14 ==
    /\ pc = "loop" /\ currentScreen = LOAD_SCREEN /\ menuItem = 0
    /\ buttons.left /\ ~buttons.right /\ ~buttons.up /\ ~buttons.down
    /\ currentSetting = 3 /\ StoredIndex(eeprom) = 4

\* the row the arrows of a cycle lead to on the Edit screen: the row held if
\* neither arrow is pressed (-1 included)
EditRow == IF buttons'.up \/ buttons'.down THEN RowAfter(menuItem, buttons', 4) ELSE menuItem

\* f + d for d = 10 or -10 as the Edit screen applies it: NaN counts as 0 and
\* a negative sum becomes 0
Adjusted(f, d) ==
    IF isnan(f) THEN FloatOfInt(IF d > 0 THEN d ELSE 0)
    ELSE IF FHuge(f) THEN (IF FSign(f) = 1 THEN FZero ELSE f)
    ELSE FloatOfInt(IF IntOfFloat(f) + d < 0 THEN 0 ELSE IntOfFloat(f) + d)

\* C15: on the Edit screen Left/Right change a field only on row 1 (diameter)
\* or row 2 (target capacity), by -10 (Left, tested first) or +10 (Right) on
\* that one field of the active setting, floored at 0; on rows -1, 0 and 3
\* they change nothing; the other fields of the active setting, the other
\* four settings, the active index, the screen, the row and the EEPROM are
\* unchanged.  (On rows 0 and 3 Select has its own effect, so those rows are
\* stated for cycles without Select.)
Thm_C15_EditLeftRight ==
    [][(pc = "loop" /\ currentScreen = SETTINGS_SCREEN
            /\ (buttons'.left \/ buttons'.right)
            /\ (EditRow \in {1, 2} \/ ~buttons'.select))
        => LET d == IF buttons'.left THEN -10 ELSE 10
               old == settings[currentSetting]
               new == settings'[currentSetting]
           IN  /\ currentScreen' = SETTINGS_SCREEN
               /\ currentSetting' = currentSetting
               /\ menuItem' = EditRow
               /\ eeprom' = eeprom
               /\ calls' = <<>>
               /\ \A i \in Slots : i # currentSetting => settings'[i] = settings[i]
               /\ new.minHeight = old.minHeight
               /\ new.diameter =
                     (IF EditRow = 1 THEN Adjusted(old.diameter, d) ELSE old.diameter)
               /\ new.targetCapacity =
                     (IF EditRow = 2 THEN Adjusted(old.targetCapacity, d)
                      ELSE old.targetCapacity)]_vars

\* C15 witness: Right on the target-capacity row raised the field from the
\* stored 10 to 20 and left the diameter at its stored value.
W_C15 ==
    /\ pc = "loop" /\ currentScreen = SETTINGS_SCREEN /\ menuItem = 2
    /\ buttons.right /\ ~buttons.left /\ ~buttons.up /\ ~buttons.down
    /\ StoredSetting(eeprom, currentSetting).targetCapacity = FloatOfInt(10)
    /\ settings[currentSetting].targetCapacity = FloatOfInt(20)
    /\ settings[currentSetting].diameter = StoredSetting(eeprom, currentSetting).diameter

\* C16 (as claimed): on a Main-screen frame drawn for a numeric volume and a
\* finite target capacity > 0, the width of the progress-bar fill is within
\* [0, barWidth] (barWidth = 124), is 0 for a volume <= 0 and is barWidth for
\* a volume >= the target capacity.
Cex_C16_FillWithinBar ==
    LET tc == settings[currentSetting].targetCapacity
    IN  (pc = "loop" /\ display.screen = MAIN_SCREEN /\ display.volume.kind = "num"
            /\ ~(tc[4] % 128 = 127 /\ tc[3] >= 128) /\ ~FHuge(tc) /\ IntOfFloat(tc) > 0)
            => /\ display.progress >= 0 /\ display.progress <= 124
               /\ display.volume.k <= 0 => display.progress = 0
               /\ display.volume.k * 31416 >= IntOfFloat(tc) * 10000000
                     => display.progress = 124

\* C17: whenever the current screen is not Edit, the five in-memory settings
\* equal the five settings records in the EEPROM.
Inv_C17_SettingsMirrorStore ==
    (pc = "loop" /\ currentScreen # SETTINGS_SCREEN)
        => \A i \in Slots : settings[i] = StoredSetting(eeprom, i)

\* C17 witness: the Edit screen was left by Select on row 3 after the target
\* capacity of the active setting had been raised to 20; the stored record
\* holds the edited value.
W_C17 ==
    /\ pc = "loop" /\ currentScreen = MENU_SCREEN
    /\ calls = <<[op |-> "save", index |-> currentSetting]>>
    /\ settings[currentSetting].targetCapacity = FloatOfInt(20)
    /\ StoredSetting(eeprom, currentSetting).targetCapacity = FloatOfInt(20)

\* C18: whenever the current screen is not Load, the in-memory active index
\* equals the active-index record in the EEPROM.
Inv_C18_IndexMirrorsStore ==
    (pc = "loop" /\ currentScreen # LOAD_SCREEN) => currentSetting = StoredIndex(eeprom)

\* C18 witness: the Load screen was left by Select with the index moved to
\* 2, a value no boot produces here; the stored record holds 2.
W_C18 ==
    /\ pc = "loop" /\ currentScreen = MENU_SCREEN
    /\ calls = <<[op |-> "load", index |-> 0]>>
    /\ currentSetting = 2 /\ StoredIndex(eeprom) = 2

\* C19 (as claimed): every render of a list screen reads row labels only at
\* indices inside its label array: 0..3 on Menu and Edit, 0..1 on Load.
Cex_C19_LabelsInsideArray ==
    /\ display.screen \in {MENU_SCREEN, SETTINGS_SCREEN} => display.labels \subseteq 0..3
    /\ display.screen = LOAD_SCREEN => display.labels \subseteq 0..1

\* C20: no screen is a dead end: from every reachable state (any screen, any
\* menuItem including -1, any active index) a finite sequence of per-cycle
\* button inputs leads to the Main screen.  Home can start in every state
\* the firmware reaches after setup with another screen showing, and once
\* started its button inputs always arrive at the Main screen.
Thm_C20_NoDeadEnd == (pc = "home") ~> (currentScreen = MAIN_SCREEN)

\* C20 witness: the button sequence ended on the Main screen through row 0
\* of the Menu, reached by Down with Select.
W_C20 ==
    /\ pc = "home" /\ currentScreen = MAIN_SCREEN
    /\ buttons.select /\ buttons.down /\ ~buttons.up

\* every Home step changes the state, so ENABLED <<Home>>_vars is HomeEnabled
HomeNeverStutters ==
    (HomeEnabled /\ pc = "home")
        => \A d \in Durations :
              LET g == handleButtons(Globals, HomeButtons(currentScreen, menuItem), d)
              IN  g.currentScreen # currentScreen \/ g.menuItem # menuItem

====
